---- MODULE Spec2Model ----
(***************************************************************************)
(* AI meeting analyzer: the cloud variant (model_logic.py, Groq) and the   *)
(* local variant (app.py, Flask routes over Ollama) of analyze and ask.    *)
(*                                                                         *)
(* Python values are tagged records (PyNone, PyStr, PyNum, PyList,         *)
(* PyDict).  Texts the code inspects (strip, lower, `in`) are sequences    *)
(* of one-character strings, so that those operations are computed.        *)
(***************************************************************************)
EXTENDS Integers, Sequences, FiniteSets, TLC

VARIABLES
    environ,         \* os.environ of the process, restricted to GROQ_API_KEY
    groq_installed,  \* whether `from groq import Groq` succeeds in this install
    imported,        \* import of model_logic: "no", "ok", or "error" if it raised
    call,            \* the last finished invocation: inputs, outbound requests, outcome
    whisper_installed, \* whether `import whisper` succeeds in this install
    _whisper_model,  \* model_logic._whisper_model: None, or the loaded model
    whisper_loads,   \* how many whisper.load_model calls of model_logic succeeded
    app_imported,    \* import of app.py: "no", "ok", or "error" if it raised
    app_model,       \* app.model: None before the import, then the loaded model
    temp_files,      \* the temporary files that exist
    temp_made,       \* how many temporary files have been created
    transcription,   \* the last finished transcribe call
    session_state,   \* st.session_state of the Streamlit session
    asked_against,   \* for each pair of chat_history, the text it was answered on
    analysed_text,   \* the text whose analysis produced analysis_result
    ui_event         \* the last rerun of main(): the button clicked and what it did

core_vars == <<environ, groq_installed, imported, call>>
transcribe_vars ==
    <<whisper_installed, _whisper_model, whisper_loads, app_imported, app_model,
      temp_files, temp_made, transcription>>
session_vars == <<session_state, asked_against, analysed_text, ui_event>>

vars == <<core_vars, transcribe_vars, session_vars>>

----------------------------------------------------------------------------
(* Bounds *)

\* longest list the model's JSON carries under a list key
MaxItems == 1

\* longest whitespace-only meeting text a caller submits
MaxBlank == 2

\* most temporary files the transcribe calls of one run create
MaxTemp == 3

\* most pairs chat_history holds
MaxChat == 2

----------------------------------------------------------------------------
(* Python values *)

PyNone == [t |-> "none"]
PyStr(s) == [t |-> "str", v |-> s]
PyNum(n) == [t |-> "num", v |-> n]
PyList(l) == [t |-> "list", v |-> l]
PyDict(d) == [t |-> "dict", v |-> d]

\* an argument, or a request field, the caller left out
Omitted == [t |-> "omitted"]

EmptyDict == [k \in {} |-> PyNone]

\* d.get(key, default) on the mapping d
dict_get(d, key, default) == IF key \in DOMAIN d THEN d[key] ELSE default

\* d[key] = value on the mapping d
dict_set(d, key, value) ==
    [k \in (DOMAIN d) \cup {key} |-> IF k = key THEN value ELSE d[k]]

----------------------------------------------------------------------------
(* str methods, on sequences of characters *)

Whitespace == {" ", "\t", "\n", "\r"}

RECURSIVE lstrip(_)
lstrip(s) ==
    IF s # <<>> /\ Head(s) \in Whitespace THEN lstrip(Tail(s)) ELSE s

RECURSIVE rstrip(_)
rstrip(s) ==
    IF s # <<>> /\ s[Len(s)] \in Whitespace
    THEN rstrip(SubSeq(s, 1, Len(s) - 1))
    ELSE s

\* str.strip()
strip(s) == rstrip(lstrip(s))

Upper == <<"A","B","C","D","E","F","G","H","I","J","K","L","M",
           "N","O","P","Q","R","S","T","U","V","W","X","Y","Z">>
Lower == <<"a","b","c","d","e","f","g","h","i","j","k","l","m",
           "n","o","p","q","r","s","t","u","v","w","x","y","z">>

ToLower ==
    [c \in {Upper[i] : i \in 1..26} |-> Lower[CHOOSE i \in 1..26 : Upper[i] = c]]

lower_char(c) == IF c \in DOMAIN ToLower THEN ToLower[c] ELSE c

\* str.lower()
lower(s) == [i \in 1..Len(s) |-> lower_char(s[i])]

\* needle in s
contains(needle, s) ==
    \E i \in 1..(Len(s) - Len(needle) + 1) :
        SubSeq(s, i, i + Len(needle) - 1) = needle

\* bool(s) of a str
truthy(s) == s # <<>>

----------------------------------------------------------------------------
(* Results of calls that may raise *)

Returned(value) == [raised |-> FALSE, exc |-> "", msg |-> <<>>, val |-> value]
Raised(exception, message) ==
    [raised |-> TRUE, exc |-> exception, msg |-> message, val |-> PyNone]

----------------------------------------------------------------------------
(* Texts of the program and of its collaborators *)

\* model_logic.py:48, first sentence of the ValueError's message
MSG_KEY_NOT_FOUND ==
    <<"G","R","O","Q","_","A","P","I","_","K","E","Y"," ","n","o","t"," ","f",
      "o","u","n","d",".">>
\* model_logic.py:55, first sentence of the ImportError's message
MSG_SDK_NOT_INSTALLED ==
    <<"G","r","o","q"," ","S","D","K"," ","n","o","t"," ","i","n","s","t","a",
      "l","l","e","d",".">>
\* the substrings analyze_meeting and chat_about_meeting look for
NEEDLE_API_KEY == <<"a","p","i","_","k","e","y">>
NEEDLE_AUTHENTICATION ==
    <<"a","u","t","h","e","n","t","i","c","a","t","i","o","n">>
NEEDLE_RATE_LIMIT == <<"r","a","t","e"," ","l","i","m","i","t">>
NEEDLE_MODEL == <<"m","o","d","e","l">>

\* str(e) of the exceptions the Groq client raises from create()
ERR_CONNECTION ==
    <<"C","o","n","n","e","c","t","i","o","n"," ","e","r","r","o","r",".">>
ERR_TIMEOUT ==
    <<"R","e","q","u","e","s","t"," ","t","i","m","e","d"," ","o","u","t",".">>
ERR_INVALID_KEY ==
    <<"E","r","r","o","r"," ","c","o","d","e",":"," ","4","0","1"," ","-"," ",
      "i","n","v","a","l","i","d","_","a","p","i","_","k","e","y">>
ERR_RATE_LIMIT ==
    <<"E","r","r","o","r"," ","c","o","d","e",":"," ","4","2","9"," ","-"," ",
      "R","a","t","e"," ","l","i","m","i","t"," ","r","e","a","c","h","e",
      "d">>
ERR_MODEL_GONE ==
    <<"E","r","r","o","r"," ","c","o","d","e",":"," ","4","0","4"," ","-"," ",
      "T","h","e"," ","m","o","d","e","l"," ","d","o","e","s"," ","n","o",
      "t"," ","e","x","i","s","t">>
ERR_SERVER ==
    <<"E","r","r","o","r"," ","c","o","d","e",":"," ","5","0","3"," ","-"," ",
      "S","e","r","v","i","c","e"," ","U","n","a","v","a","i","l","a","b",
      "l","e">>
\* str(e) of the AttributeError of result.get on a JSON value that is no object
ERR_NO_GET ==
    <<"o","b","j","e","c","t"," ","h","a","s"," ","n","o"," ","a","t","t","r",
      "i","b","u","t","e"," ","'","g","e","t","'">>
\* str(e) of the TypeError of json.loads(None)
ERR_NOT_STR ==
    <<"t","h","e"," ","J","S","O","N"," ","o","b","j","e","c","t"," ","m","u",
      "s","t"," ","b","e"," ","s","t","r">>

GroqErrors ==
    {ERR_CONNECTION, ERR_TIMEOUT, ERR_INVALID_KEY, ERR_RATE_LIMIT,
     ERR_MODEL_GONE, ERR_SERVER}

----------------------------------------------------------------------------
(* What a backend can answer *)

RequiredKeys == {"summary", "key_points", "decisions", "action_items", "confidence"}
ListKeys == {"key_points", "decisions", "action_items"}

Items(n) == [i \in 1..n |-> "item"]

\* a value of the shape the prompt asks for
WellShaped(k, n) ==
    CASE k = "summary" -> PyStr("S")
      [] k \in ListKeys -> PyList(Items(n))
      [] k = "confidence" -> PyStr("85%")
      [] OTHER -> PyStr("Model Title")

\* other values a model puts under the key
OtherShapes(k) ==
    CASE k = "summary" -> {PyNone, PyStr(""), PyNum(7)}
      [] k = "key_points" -> {PyNone, PyStr("one point")}
      [] k = "decisions" -> {PyNone}
      [] k = "action_items" -> {PyStr("call Bob"), PyNum(0)}
      [] OTHER -> {PyNum(90), PyNone}

FullObject(n) == [k \in RequiredKeys |-> WellShaped(k, n)]

JsonObjects ==
    \* at most one of the five keys, or all but at most one, well shaped
    {[k \in P |-> WellShaped(k, MaxItems)] :
        P \in {Q \in SUBSET RequiredKeys : Cardinality(Q) \notin {2, 3}}}
    \* all five keys, one of another shape
    \cup UNION {{[FullObject(MaxItems) EXCEPT ![k] = w] : w \in OtherShapes(k)} :
                  k \in RequiredKeys}
    \* all five keys, lists of every length
    \cup {FullObject(n) : n \in 0..MaxItems}
    \* objects that carry a meeting_title of their own
    \cup {dict_set(d, "meeting_title", WellShaped("meeting_title", 0)) :
            d \in {FullObject(MaxItems), EmptyDict}}

JsonDocs ==
    {PyDict(d) : d \in JsonObjects}
    \cup {PyList(<<>>), PyStr("Sorry"), PyNum(3), PyNone}

\* message.content / the "response" field: text that is JSON for doc, text
\* that is not JSON, or no text at all
AiText(kind, doc) == [kind |-> kind, doc |-> doc]
AiTexts ==
    {AiText("json", d) : d \in JsonDocs}
    \cup {AiText("prose", PyNone), AiText("none", PyNone)}

\* json.loads(ai_text)
json_loads(ai_text) ==
    CASE ai_text.kind = "json" -> Returned(ai_text.doc)
      [] ai_text.kind = "prose" -> Raised("JSONDecodeError", <<>>)
      [] OTHER -> Raised("TypeError", ERR_NOT_STR)

\* what one call of the backend does: raises, or returns a text
BackendReply(raised, msg, content) ==
    [raised |-> raised, msg |-> msg, content |-> content]

----------------------------------------------------------------------------
(* What a caller receives *)

\* the function returned `value` (cloud), or the route answered `status`
\* with the JSON body `value` (local)
Return(status, value) ==
    [kind |-> "return", status |-> status, exc |-> "", msg |-> "",
     detail |-> <<>>, body |-> value]

\* the function raised exc(msg + detail); for a route, Flask answers 500
Raise(status, exception, message, detail) ==
    [kind |-> "raise", status |-> status, exc |-> exception, msg |-> message,
     detail |-> detail, body |-> PyNone]

NoOutcome ==
    [kind |-> "none", status |-> 0, exc |-> "", msg |-> "", detail |-> <<>>,
     body |-> PyNone]

\* an invocation's trace: the outbound requests it made, and its outcome
Done(requests, outcome) == [requests |-> requests, outcome |-> outcome]

----------------------------------------------------------------------------
(* model_logic.py: the cloud variant *)

GROQ_MODEL == "llama-3.1-8b-instant"

os_environ_get(name) == dict_get(environ, name, PyNone)

\* `not api_key`
not_key(api_key) == api_key.t = "none" \/ api_key = PyStr("")

\* get_groq_client without the `if not api_key` check
get_groq_client_unchecked ==
    IF ~groq_installed
    THEN Raised("ImportError", MSG_SDK_NOT_INSTALLED)
    ELSE Returned([api_key |-> os_environ_get("GROQ_API_KEY")])

get_groq_client ==
    IF ~groq_installed
    THEN Raised("ImportError", MSG_SDK_NOT_INSTALLED)
    ELSE LET api_key == os_environ_get("GROQ_API_KEY") IN
         IF not_key(api_key)
         THEN Raised("ValueError", MSG_KEY_NOT_FOUND)
         ELSE Returned([api_key |-> api_key])

\* client.chat.completions.create(...) as an outbound request
GroqRequest(client, task, context, question, json_mode) ==
    [api |-> "groq.chat.completions", model |-> GROQ_MODEL, task |-> task,
     api_key |-> client.api_key, context |-> context, question |-> question,
     json_mode |-> json_mode]

\* the result built with `**result` last, so that the model's keys win
validated_result_model_title(result, meeting_title) ==
    [k \in RequiredKeys \cup {"meeting_title"} |->
        CASE k = "summary" -> dict_get(result, k, PyStr("No summary generated"))
          [] k = "key_points" -> dict_get(result, k, PyList(<<>>))
          [] k = "decisions" -> dict_get(result, k, PyList(<<>>))
          [] k = "action_items" -> dict_get(result, k, PyList(<<>>))
          [] k = "confidence" -> dict_get(result, k, PyStr("50%"))
          [] OTHER -> dict_get(result, k, meeting_title)]

\* lines 138-145: the defaults for missing fields, and the caller's title
validated_result(result, meeting_title) ==
    [k \in RequiredKeys \cup {"meeting_title"} |->
        CASE k = "summary" -> dict_get(result, k, PyStr("No summary generated"))
          [] k = "key_points" -> dict_get(result, k, PyList(<<>>))
          [] k = "decisions" -> dict_get(result, k, PyList(<<>>))
          [] k = "action_items" -> dict_get(result, k, PyList(<<>>))
          [] k = "confidence" -> dict_get(result, k, PyStr("50%"))
          [] OTHER -> meeting_title]

\* lines 151-161: `except Exception as e` of analyze_meeting
analyze_error(error_msg) ==
    LET lowered == lower(error_msg) IN
    IF contains(NEEDLE_API_KEY, lowered) \/ contains(NEEDLE_AUTHENTICATION, lowered)
    THEN Raise(0, "Exception",
               "API authentication failed. Please check your GROQ_API_KEY in Streamlit Secrets.",
               <<>>)
    ELSE IF contains(NEEDLE_RATE_LIMIT, lowered)
    THEN Raise(0, "Exception",
               "Rate limit exceeded. Please wait a moment and try again.", <<>>)
    ELSE IF contains(NEEDLE_MODEL, lowered)
    THEN Raise(0, "Exception", "Model error: ", error_msg)
    ELSE Raise(0, "Exception", "Analysis failed: ", error_msg)

\* lines 132-161: from the reply of create() to what the caller receives
analyze_reply(meeting_title, reply) ==
    LET parsed == json_loads(reply.content) IN
    IF reply.raised
    THEN analyze_error(reply.msg)
    ELSE IF parsed.raised /\ parsed.exc = "JSONDecodeError"
    THEN Raise(0, "ValueError", "Failed to parse AI response as JSON: ", <<>>)
    ELSE IF parsed.raised
    THEN analyze_error(parsed.msg)
    ELSE IF parsed.val.t # "dict"
    THEN analyze_error(ERR_NO_GET)
    ELSE Return(0, PyDict(validated_result(parsed.val.v, meeting_title)))

\* the round trip with create() called a second time when it raises
analyze_round_trip_retry(client, meeting_text, meeting_title, reply) ==
    LET sent == <<GroqRequest(client, "analyze", meeting_text, <<>>, TRUE)>>
    IN  Done(IF reply.raised THEN sent \o sent ELSE sent,
             analyze_reply(meeting_title, reply))

\* lines 119-161: the one call of create() and what becomes of its reply
analyze_round_trip(client, meeting_text, meeting_title, reply) ==
    Done(<<GroqRequest(client, "analyze", meeting_text, <<>>, TRUE)>>,
         analyze_reply(meeting_title, reply))

\* analyze_meeting with the client built before the text is checked
analyze_meeting_client_first(meeting_text, title_arg, reply) ==
    LET meeting_title ==
            IF title_arg.t = "omitted" THEN PyStr("Meeting Analysis") ELSE title_arg
        client == get_groq_client
    IN
    IF client.raised
    THEN Done(<<>>, analyze_error(client.msg))
    ELSE IF ~truthy(meeting_text) \/ ~truthy(strip(meeting_text))
    THEN Done(<<>>, Raise(0, "ValueError", "Meeting text cannot be empty", <<>>))
    ELSE analyze_round_trip(client.val, meeting_text, meeting_title, reply)

\* analyze_meeting(meeting_text, meeting_title), reply being what create()
\* does if it is called
analyze_meeting(meeting_text, title_arg, reply) ==
    LET meeting_title ==
            IF title_arg.t = "omitted" THEN PyStr("Meeting Analysis") ELSE title_arg
    IN
    IF ~truthy(meeting_text) \/ ~truthy(strip(meeting_text))
    THEN Done(<<>>, Raise(0, "ValueError", "Meeting text cannot be empty", <<>>))
    ELSE
    LET client == get_groq_client IN
    IF client.raised
    THEN Done(<<>>, analyze_error(client.msg))
    ELSE analyze_round_trip(client.val, meeting_text, meeting_title, reply)

\* lines 207-215: `except Exception as e` of chat_about_meeting
chat_error(error_msg) ==
    LET lowered == lower(error_msg) IN
    IF contains(NEEDLE_API_KEY, lowered) \/ contains(NEEDLE_AUTHENTICATION, lowered)
    THEN Raise(0, "Exception",
               "API authentication failed. Please check your GROQ_API_KEY in Streamlit Secrets.",
               <<>>)
    ELSE IF contains(NEEDLE_RATE_LIMIT, lowered)
    THEN Raise(0, "Exception",
               "Rate limit exceeded. Please wait a moment and try again.", <<>>)
    ELSE Raise(0, "Exception", "Chat failed: ", error_msg)

\* chat_about_meeting(question, meeting_notes)
chat_about_meeting(question, meeting_notes, reply) ==
    IF ~truthy(question) \/ ~truthy(strip(question))
    THEN Done(<<>>, Raise(0, "ValueError", "Question cannot be empty", <<>>))
    ELSE IF ~truthy(meeting_notes) \/ ~truthy(strip(meeting_notes))
    THEN Done(<<>>, Raise(0, "ValueError", "Meeting notes cannot be empty", <<>>))
    ELSE
    LET client == get_groq_client IN
    IF client.raised
    THEN Done(<<>>, chat_error(client.msg))
    ELSE
    LET sent == <<GroqRequest(client.val, "chat", meeting_notes, question, FALSE)>>
    IN  IF reply.raised
        THEN Done(sent, chat_error(reply.msg))
        ELSE Done(sent, Return(0, reply.content))

----------------------------------------------------------------------------
(* app.py: the local variant *)

\* str(e) of what requests.post / ollama.chat raise, and of the KeyError of
\* res.json()["response"] on an error body
ERR_REFUSED ==
    <<"C","o","n","n","e","c","t","i","o","n"," ","r","e","f","u","s","e","d">>
ERR_NO_RESPONSE == <<"'","r","e","s","p","o","n","s","e","'">>

OllamaErrors == {ERR_REFUSED, ERR_NO_RESPONSE}

\* requests.post(...) of ask_local_ai / ollama.chat(...) as an outbound request
OllamaRequest(api, task, context, question) ==
    [api |-> api, model |-> "llama3", task |-> task, api_key |-> PyNone,
     context |-> context, question |-> question, json_mode |-> FALSE]

\* ask_local_ai(prompt): res.json()["response"], or what the call raises
ask_local_ai(reply) ==
    IF reply.raised THEN Raised("Exception", reply.msg) ELSE Returned(reply.content)

\* lines 85-91: the result of the `except Exception` branch of /analyze
COULD_NOT_ANALYZE ==
    [k \in RequiredKeys |->
        CASE k = "summary" -> PyStr("Could not analyze meeting.")
          [] k = "confidence" -> PyNum(0)
          [] OTHER -> PyList(<<>>)]

\* POST /analyze with the JSON body data
analyze(data, reply) ==
    LET meeting_text == strip(dict_get(data, "meeting_text", <<>>))
        meeting_title == dict_get(data, "meeting_title", PyStr("Untitled Meeting"))
    IN
    IF ~truthy(meeting_text)
    THEN Done(<<>>, Return(400, PyDict([error |-> PyStr("No meeting text provided")])))
    ELSE
    LET sent == <<OllamaRequest("ollama.generate", "analyze", meeting_text, <<>>)>>
        ai_text == ask_local_ai(reply)
        parsed == json_loads(ai_text.val)
        result == IF ai_text.raised \/ parsed.raised
                  THEN PyDict(COULD_NOT_ANALYZE)
                  ELSE parsed.val
    IN  IF result.t # "dict"
        THEN Done(sent, Raise(500, "TypeError", "", <<>>))
        ELSE Done(sent, Return(200, PyDict(dict_set(result.v, "meeting_title", meeting_title))))

\* POST /chat with the JSON body data
chat(data, reply) ==
    LET question == dict_get(data, "question", <<>>)
        notes == dict_get(data, "notes", <<>>)
        sent == <<OllamaRequest("ollama.chat", "chat", notes, question)>>
    IN  IF reply.raised
        THEN Done(sent, Return(200, PyDict([answer |->
                                PyStr("Server error. Check Flask console.")])))
        ELSE Done(sent, Return(200, PyDict([answer |-> reply.content])))

----------------------------------------------------------------------------
(* Inputs *)

T_BLANK == <<" ", "\n">>
T_NOTES == <<"S","h","i","p">>
T_PADDED == <<" ","F","r","i","\n">>
BlankTexts == UNION {[1..n -> {" ", "\n"}] : n \in 0..MaxBlank}
MeetingTexts == BlankTexts \cup {T_NOTES, T_PADDED}

Q_EMPTY == <<>>
Q_BLANK == <<" ">>
Q_WHO == <<"W","h","o","?">>
Questions == {Q_EMPTY, Q_BLANK, Q_WHO}

TitleArgs == {Omitted, PyStr("Q3 Sync")}

ApiKeys == {PyStr(""), PyStr("gsk_A"), PyStr("gsk_B")}

Answers == {PyStr("Ship Friday."), PyNone}

NoReply == BackendReply(FALSE, <<>>, AiText("none", PyNone))

GroqAnalyzeReplies ==
    {BackendReply(TRUE, e, AiText("none", PyNone)) : e \in GroqErrors}
    \cup {BackendReply(FALSE, <<>>, t) : t \in AiTexts}
GroqChatReplies ==
    {BackendReply(TRUE, e, PyNone) : e \in GroqErrors}
    \cup {BackendReply(FALSE, <<>>, a) : a \in Answers}
OllamaAnalyzeReplies ==
    {BackendReply(TRUE, e, AiText("none", PyNone)) : e \in OllamaErrors}
    \cup {BackendReply(FALSE, <<>>, t) : t \in AiTexts}
OllamaChatReplies ==
    {BackendReply(TRUE, e, PyNone) : e \in OllamaErrors}
    \cup {BackendReply(FALSE, <<>>, a) : a \in Answers}

\* the JSON body of a request to /analyze
AnalyzeBody(meeting_text, title_arg) ==
    IF title_arg.t = "omitted"
    THEN [meeting_text |-> meeting_text]
    ELSE [meeting_text |-> meeting_text, meeting_title |-> title_arg]

----------------------------------------------------------------------------
(* The state machine *)

\* the record of an invocation; the backend's reply is kept only when a
\* request was made
Invocation(variant, op, meeting_text, question, title_arg, reply, done) ==
    [variant |-> variant, op |-> op, meeting_text |-> meeting_text,
     question |-> question, title_arg |-> title_arg,
     reply |-> IF done.requests = <<>> THEN NoReply ELSE reply,
     requests |-> done.requests, outcome |-> done.outcome]

\* the replies to draw from: the backend answers only an invocation that
\* reaches it
Reached(done, replies) == IF done.requests = <<>> THEN {NoReply} ELSE replies

NoCall ==
    Invocation("none", "none", <<>>, <<>>, Omitted, NoReply, Done(<<>>, NoOutcome))

\* a loaded Whisper model: where load_model was called, and which load it is
WhisperModel(loaded_at, n) == [t |-> "model", at |-> loaded_at, n |-> n]

NoTranscription == [variant |-> "none", created |-> 0, raised |-> FALSE, exc |-> ""]

\* lines 197-202 of main(): the session as its first run initialises it
NewSession ==
    [analysis_result |-> PyNone, meeting_text |-> <<>>, chat_history |-> <<>>]

NoEvent ==
    [button |-> "none", ok |-> FALSE, box |-> <<>>, question |-> <<>>,
     asked |-> FALSE, context |-> <<>>]

\* no transcribe call made yet, the Flask application up with its model
\* loaded, no temporary file
TranscribeIdle ==
    /\ whisper_installed = TRUE
    /\ _whisper_model = PyNone
    /\ whisper_loads = 0
    /\ app_imported = "ok"
    /\ app_model = WhisperModel("import", 1)
    /\ temp_files = {}
    /\ temp_made = 0
    /\ transcription = NoTranscription

\* the Streamlit session before its first run
SessionIdle ==
    /\ session_state = NewSession
    /\ asked_against = <<>>
    /\ analysed_text = <<>>
    /\ ui_event = NoEvent

\* analyze and ask: the credential and the SDK vary, model_logic is not yet
\* imported
Init ==
    /\ environ \in {EmptyDict} \cup {[GROQ_API_KEY |-> k] : k \in ApiKeys}
    /\ groq_installed \in BOOLEAN
    /\ imported = "no"
    /\ call = NoCall
    /\ TranscribeIdle
    /\ SessionIdle

\* the module body of model_logic: the optional imports are guarded, no
\* credential is read and no client is built
import_model_logic == "ok"

ImportModelLogic ==
    /\ imported = "no"
    /\ imported' = import_model_logic
    /\ _whisper_model' = PyNone
    /\ whisper_loads' = 0
    /\ UNCHANGED <<environ, groq_installed, call>>
    /\ UNCHANGED <<whisper_installed, app_imported, app_model, temp_files, temp_made,
                   transcription, session_vars>>

\* the deployment sets or rotates GROQ_API_KEY
SetKey ==
    /\ \E k \in ApiKeys : environ' = dict_set(environ, "GROQ_API_KEY", k)
    /\ UNCHANGED <<groq_installed, imported, call, transcribe_vars, session_vars>>

\* the deployment removes GROQ_API_KEY
UnsetKey ==
    /\ environ' = EmptyDict
    /\ UNCHANGED <<groq_installed, imported, call, transcribe_vars, session_vars>>

AnalyzeCloud ==
    /\ imported = "ok"
    /\ \E meeting_text \in MeetingTexts, title_arg \in TitleArgs :
       \E reply \in Reached(analyze_meeting(meeting_text, title_arg, NoReply),
                            GroqAnalyzeReplies) :
        call' = Invocation("cloud", "analyze", meeting_text, <<>>, title_arg, reply,
                           analyze_meeting(meeting_text, title_arg, reply))
    /\ UNCHANGED <<environ, groq_installed, imported, transcribe_vars, session_vars>>

ChatCloud ==
    /\ imported = "ok"
    /\ \E question \in Questions, meeting_notes \in MeetingTexts :
       \E reply \in Reached(chat_about_meeting(question, meeting_notes, NoReply),
                            GroqChatReplies) :
        call' = Invocation("cloud", "ask", meeting_notes, question, Omitted, reply,
                           chat_about_meeting(question, meeting_notes, reply))
    /\ UNCHANGED <<environ, groq_installed, imported, transcribe_vars, session_vars>>

AnalyzeLocal ==
    /\ app_imported = "ok"
    /\ \E meeting_text \in MeetingTexts, title_arg \in TitleArgs :
       \E reply \in Reached(analyze(AnalyzeBody(meeting_text, title_arg), NoReply),
                            OllamaAnalyzeReplies) :
        call' = Invocation("local", "analyze", meeting_text, <<>>, title_arg, reply,
                           analyze(AnalyzeBody(meeting_text, title_arg), reply))
    /\ UNCHANGED <<environ, groq_installed, imported, transcribe_vars, session_vars>>

ChatLocal ==
    /\ app_imported = "ok"
    /\ \E question \in Questions, notes \in MeetingTexts :
       \E reply \in Reached(chat([question |-> question, notes |-> notes], NoReply),
                            OllamaChatReplies) :
        call' = Invocation("local", "ask", notes, question, Omitted, reply,
                           chat([question |-> question, notes |-> notes], reply))
    /\ UNCHANGED <<environ, groq_installed, imported, transcribe_vars, session_vars>>

Next ==
    \/ ImportModelLogic
    \/ SetKey
    \/ UnsetKey
    \/ AnalyzeCloud
    \/ ChatCloud
    \/ AnalyzeLocal
    \/ ChatLocal

Spec == Init /\ [][Next]_vars

----------------------------------------------------------------------------
(* Transcription: the Whisper model and the temporary audio files *)

\* model_logic.WHISPER_AVAILABLE: whether `import whisper` succeeded
WHISPER_AVAILABLE == whisper_installed

\* what the calls a transcription makes outside the program do: saving the
\* upload, loading the model, transcribing the file
Effects == [save_ok : BOOLEAN, load_ok : BOOLEAN, transcribe_ok : BOOLEAN]

\* tempfile.NamedTemporaryFile(delete=False): a file that did not exist before
new_temp_file(made) == made + 1

\* get_whisper_model(): the cached model, loaded by the first call that finds
\* the cache empty; a load that raises leaves the cache empty
get_whisper_model(model, loads, load_ok) ==
    IF ~WHISPER_AVAILABLE
    THEN [model |-> model, loads |-> loads,
          result |-> Raised("ImportError", "Whisper not installed")]
    ELSE IF model = PyNone
         THEN IF load_ok
              THEN [model |-> WhisperModel("first use", loads + 1),
                    loads |-> loads + 1,
                    result |-> Returned(WhisperModel("first use", loads + 1))]
              ELSE [model |-> PyNone, loads |-> loads,
                    result |-> Raised("LoadError", "load_model failed")]
         ELSE [model |-> model, loads |-> loads, result |-> Returned(model)]

Transcribed(variant, created, result) ==
    [variant |-> variant, created |-> created, raised |-> result.raised,
     exc |-> result.exc]

\* transcribe_audio(audio_file): the temporary file is created and the upload
\* saved into it before the try statement; the finally clause of the try
\* statement unlinks it (os.unlink of the file just written is taken to
\* succeed)
transcribe_audio(model, loads, files, made, fx) ==
    IF ~WHISPER_AVAILABLE
    THEN [model |-> model, loads |-> loads, files |-> files, made |-> made,
          done |-> Transcribed("cloud", 0,
                               Raised("ImportError", "Whisper not installed"))]
    ELSE
      LET temp_path == new_temp_file(made)
          created == files \cup {temp_path}
      IN IF ~fx.save_ok
         THEN [model |-> model, loads |-> loads, files |-> created,
               made |-> temp_path,
               done |-> Transcribed("cloud", temp_path,
                                    Raised("SaveError", "save failed"))]
         ELSE
           LET got == get_whisper_model(model, loads, fx.load_ok)
               result ==
                   IF got.result.raised THEN got.result
                   ELSE IF fx.transcribe_ok
                        THEN Returned(PyStr("We ship on Friday."))
                        ELSE Raised("TranscribeError", "transcribe failed")
           IN [model |-> got.model, loads |-> got.loads,
               files |-> created \ {temp_path}, made |-> temp_path,
               done |-> Transcribed("cloud", temp_path, result)]

\* app.py, POST /transcribe: the upload is saved into a temporary file and
\* transcribed with the model loaded at import; no statement removes the file
transcribe(files, made, fx) ==
    LET temp_path == new_temp_file(made)
        created == files \cup {temp_path}
        result ==
            IF ~fx.save_ok THEN Raised("SaveError", "save failed")
            ELSE IF fx.transcribe_ok
                 THEN Returned(PyStr("We ship on Friday."))
                 ELSE Raised("TranscribeError", "transcribe failed")
    IN [files |-> created, made |-> temp_path,
        done |-> Transcribed("local", temp_path, result)]

\* import of app.py: line 7 imports whisper, line 12 loads the model
import_app(load_ok) ==
    IF ~whisper_installed THEN [status |-> "error", model |-> PyNone]
    ELSE IF load_ok THEN [status |-> "ok", model |-> WhisperModel("import", 1)]
    ELSE [status |-> "error", model |-> PyNone]

ImportApp ==
    /\ app_imported = "no"
    /\ \E load_ok \in BOOLEAN :
        /\ app_imported' = import_app(load_ok).status
        /\ app_model' = import_app(load_ok).model
    /\ UNCHANGED <<core_vars, whisper_installed, _whisper_model, whisper_loads,
                   temp_files, temp_made, transcription, session_vars>>

GetWhisperModel ==
    /\ imported = "ok"
    /\ \E load_ok \in BOOLEAN :
        LET got == get_whisper_model(_whisper_model, whisper_loads, load_ok)
        IN /\ _whisper_model' = got.model
           /\ whisper_loads' = got.loads
    /\ UNCHANGED <<core_vars, whisper_installed, app_imported, app_model,
                   temp_files, temp_made, transcription, session_vars>>

TranscribeAudio ==
    /\ imported = "ok"
    /\ temp_made < MaxTemp
    /\ \E fx \in Effects :
        LET r == transcribe_audio(_whisper_model, whisper_loads, temp_files,
                                  temp_made, fx)
        IN /\ _whisper_model' = r.model
           /\ whisper_loads' = r.loads
           /\ temp_files' = r.files
           /\ temp_made' = r.made
           /\ transcription' = r.done
    /\ UNCHANGED <<core_vars, whisper_installed, app_imported, app_model,
                   session_vars>>

TranscribeRoute ==
    /\ app_imported = "ok"
    /\ temp_made < MaxTemp
    /\ \E fx \in Effects :
        LET r == transcribe(temp_files, temp_made, fx)
        IN /\ temp_files' = r.files
           /\ temp_made' = r.made
           /\ transcription' = r.done
    /\ UNCHANGED <<core_vars, whisper_installed, _whisper_model, whisper_loads,
                   app_imported, app_model, session_vars>>

\* transcription: the installation of Whisper varies, neither program is
\* imported yet
InitTranscribe ==
    /\ environ = EmptyDict
    /\ groq_installed = TRUE
    /\ imported = "no"
    /\ call = NoCall
    /\ whisper_installed \in BOOLEAN
    /\ _whisper_model = PyNone
    /\ whisper_loads = 0
    /\ app_imported = "no"
    /\ app_model = PyNone
    /\ temp_files = {}
    /\ temp_made = 0
    /\ transcription = NoTranscription
    /\ SessionIdle

NextTranscribe ==
    \/ ImportModelLogic
    \/ ImportApp
    \/ GetWhisperModel
    \/ TranscribeAudio
    \/ TranscribeRoute

SpecTranscribe == InitTranscribe /\ [][NextTranscribe]_vars

----------------------------------------------------------------------------
(* streamlit_app.py: the session of main() *)

\* what the text area, the title input and the question input hold in a run
BoxTexts == {<<>>, T_BLANK, T_NOTES, T_PADDED}
BoxTitles == {PyStr(""), PyStr("Q3 Sync")}

\* what the backend does in a session: it fails, answers prose, or answers
\* the object asked for
SessionAnalyzeReplies ==
    {BackendReply(TRUE, ERR_CONNECTION, AiText("none", PyNone)),
     BackendReply(FALSE, <<>>, AiText("prose", PyNone)),
     BackendReply(FALSE, <<>>, AiText("json", PyDict(FullObject(MaxItems))))}
SessionChatReplies ==
    {BackendReply(TRUE, ERR_CONNECTION, PyNone),
     BackendReply(FALSE, <<>>, PyStr("Ship Friday."))}

\* meeting_title or "Meeting Analysis"
title_or_default(meeting_title) ==
    IF meeting_title.v = "" THEN PyStr("Meeting Analysis") ELSE meeting_title

\* the analysis block with the text stored before analyze_meeting is called
run_analysis_text_first(session, meeting_text, meeting_title, reply) ==
    LET done == analyze_meeting(meeting_text, title_or_default(meeting_title), reply)
    IN [done |-> done,
        session |->
            IF done.outcome.kind = "return"
            THEN [session EXCEPT !.analysis_result = done.outcome.body,
                                 !.meeting_text = meeting_text]
            ELSE [session EXCEPT !.meeting_text = meeting_text]]

\* lines 289-305: the result and its text are stored after analyze_meeting
\* returns; an exception is shown and nothing is stored
run_analysis(session, meeting_text, meeting_title, reply) ==
    LET done == analyze_meeting(meeting_text, title_or_default(meeting_title), reply)
    IN [done |-> done,
        session |->
            IF done.outcome.kind = "return"
            THEN [session EXCEPT !.analysis_result = done.outcome.body,
                                 !.meeting_text = meeting_text]
            ELSE session]

\* lines 280-283: Clear empties the result and the chat, not meeting_text
run_clear(session) ==
    [session EXCEPT !.analysis_result = PyNone, !.chat_history = <<>>]

\* lines 337-351: the question is asked against session_state.meeting_text;
\* the pair is appended when chat_about_meeting returns
run_send(session, prompt, reply) ==
    LET done == chat_about_meeting(prompt, session.meeting_text, reply)
    IN [done |-> done,
        session |->
            IF done.outcome.kind = "return"
            THEN [session EXCEPT !.chat_history =
                                    Append(@, <<prompt, done.outcome.body>>)]
            ELSE session]

\* the context of the request a call made, if it made one
ContextSent(done) ==
    IF done.requests = <<>> THEN <<>> ELSE done.requests[1].context

UiEvent(button, box, question, done) ==
    [button |-> button, ok |-> done.outcome.kind = "return", box |-> box,
     question |-> question, asked |-> done.requests # <<>>,
     context |-> ContextSent(done)]

\* a run with the Analyze button clicked; the button is disabled while the
\* text area is blank
Analyze ==
    \E meeting_text \in BoxTexts, meeting_title \in BoxTitles :
        /\ truthy(strip(meeting_text))
        /\ \E reply \in Reached(run_analysis(session_state, meeting_text,
                                             meeting_title, NoReply).done,
                                SessionAnalyzeReplies) :
            LET r == run_analysis(session_state, meeting_text, meeting_title, reply)
            IN /\ session_state' = r.session
               /\ analysed_text' =
                    IF r.done.outcome.kind = "return" THEN meeting_text
                    ELSE analysed_text
               /\ ui_event' = UiEvent("analyze", meeting_text, <<>>, r.done)
        /\ UNCHANGED <<core_vars, transcribe_vars, asked_against>>

\* a run with the Clear button clicked
Clear ==
    /\ \E meeting_text \in BoxTexts :
        ui_event' = UiEvent("clear", meeting_text, <<>>, Done(<<>>, NoOutcome))
    /\ session_state' = run_clear(session_state)
    /\ asked_against' = <<>>
    /\ UNCHANGED <<core_vars, transcribe_vars, analysed_text>>

\* a run with the Send button clicked; the chat is rendered while a result is
\* displayed, the button while the question is not empty
Send ==
    /\ session_state.analysis_result # PyNone
    /\ Len(session_state.chat_history) < MaxChat
    /\ \E meeting_text \in BoxTexts, prompt \in Questions :
        /\ truthy(prompt)
        /\ \E reply \in Reached(run_send(session_state, prompt, NoReply).done,
                                SessionChatReplies) :
            LET r == run_send(session_state, prompt, reply)
            IN /\ session_state' = r.session
               /\ asked_against' =
                    IF r.done.outcome.kind = "return"
                    THEN Append(asked_against, ContextSent(r.done))
                    ELSE asked_against
               /\ ui_event' = UiEvent("send", meeting_text, prompt, r.done)
    /\ UNCHANGED <<core_vars, transcribe_vars, analysed_text>>

\* the session: model_logic is imported by streamlit_app, the credential is
\* set or not, the session is new
InitSession ==
    /\ environ \in {EmptyDict, [GROQ_API_KEY |-> PyStr("gsk_A")]}
    /\ groq_installed = TRUE
    /\ imported = "ok"
    /\ call = NoCall
    /\ TranscribeIdle
    /\ SessionIdle

NextSession ==
    \/ Analyze
    \/ Clear
    \/ Send

SpecSession == InitSession /\ [][NextSession]_vars

----------------------------------------------------------------------------
(* Vocabulary of the claims *)

SixKeys == RequiredKeys \cup {"meeting_title"}

IsBlank(s) == \A i \in 1..Len(s) : s[i] \in Whitespace

\* the category of the specification's taxonomy an outcome falls in, "none"
\* for a result, "other" for a failure outside the taxonomy
Category(o) ==
    CASE o.kind = "raise" /\ o.exc = "ValueError"
           /\ o.msg \in {"Meeting text cannot be empty", "Question cannot be empty",
                         "Meeting notes cannot be empty"} -> "ValidationFailure"
      [] o.kind = "return" /\ o.status = 400 -> "ValidationFailure"
      [] o.kind = "raise" /\ o.exc = "ValueError"
           /\ o.msg = "Failed to parse AI response as JSON: " -> "ParseFailure"
      [] o.kind = "raise" /\ o.exc = "Exception"
           /\ o.msg = "API authentication failed. Please check your GROQ_API_KEY in Streamlit Secrets."
           -> "AuthenticationFailed"
      [] o.kind = "raise" /\ o.exc = "Exception"
           /\ o.msg = "Rate limit exceeded. Please wait a moment and try again."
           -> "RateLimited"
      [] o.kind = "return" /\ o.status \in {0, 200} -> "none"
      [] OTHER -> "other"

Taxonomy ==
    {"ConnectionUnavailable", "AuthenticationFailed", "RateLimited", "ParseFailure",
     "ValidationFailure"}

\* the invocation returned an analysis result to its caller
ReturnedResult(c) ==
    c.op = "analyze" /\ c.outcome.kind = "return" /\ c.outcome.status \in {0, 200}

\* the backend was called and answered text that is the JSON object d
AnsweredObject(c) ==
    /\ c.requests # <<>>
    /\ ~c.reply.raised
    /\ c.reply.content.kind = "json"
    /\ c.reply.content.doc.t = "dict"

\* the title the caller gets when it supplies none
TitlePlaceholder(c) ==
    IF c.variant = "cloud" THEN PyStr("Meeting Analysis") ELSE PyStr("Untitled Meeting")

CallerTitle(c) == IF c.title_arg.t = "omitted" THEN TitlePlaceholder(c) ELSE c.title_arg

\* the defaults the specification names for an absent key
SpecDefaults(k) ==
    CASE k = "summary" -> {PyStr("No summary generated"), PyStr("Could not analyze meeting.")}
      [] k = "confidence" -> {PyStr("50%"), PyNum(50)}
      [] OTHER -> {PyList(<<>>)}

----------------------------------------------------------------------------
(* C1 *)

\* C1: when the backend answers a JSON object that lacks some of the five
\* keys, analyze returns a result with all six keys: the keys that were
\* present keep the model's value, the absent ones hold their default, and
\* meeting_title is the caller's title.  Stated for both variants.
C1_AbsentKeysDefaulted ==
    (/\ call.op = "analyze"
     /\ AnsweredObject(call)
     /\ RequiredKeys \ DOMAIN call.reply.content.doc.v # {})
    => /\ ReturnedResult(call)
       /\ DOMAIN call.outcome.body.v = SixKeys
       /\ \A k \in RequiredKeys :
            IF k \in DOMAIN call.reply.content.doc.v
            THEN call.outcome.body.v[k] = call.reply.content.doc.v[k]
            ELSE call.outcome.body.v[k] \in SpecDefaults(k)
       /\ call.outcome.body.v["meeting_title"] = CallerTitle(call)

\* the same statement for the cloud variant alone, which the code satisfies
C1_CloudAbsentKeysDefaulted ==
    call.variant = "cloud" => C1_AbsentKeysDefaulted

----------------------------------------------------------------------------
(* C2 *)

\* C2: whenever the backend's answer parses as JSON and the cloud
\* analyze_meeting returns a result, key_points, decisions and action_items
\* of the result are sequences and its summary is a non-empty string: a key
\* present with the wrong shape is replaced like an absent one.
C2_ListsAreSequences ==
    (call.variant = "cloud" /\ ReturnedResult(call))
    => /\ \A k \in ListKeys :
            /\ k \in DOMAIN call.outcome.body.v
            /\ call.outcome.body.v[k].t = "list"
       /\ "summary" \in DOMAIN call.outcome.body.v
       /\ call.outcome.body.v["summary"].t = "str"
       /\ call.outcome.body.v["summary"].v # ""

----------------------------------------------------------------------------
(* C3 *)

\* the backend was called and answered text that is not JSON
AnsweredProse(c) ==
    c.requests # <<>> /\ ~c.reply.raised /\ c.reply.content.kind = "prose"

\* C3: when the backend answers text that does not parse as JSON, analyze
\* fails with ParseFailure, in both variants; no result is returned in
\* place of the unparsable answer.
C3_UnparsableIsParseFailure ==
    (call.op = "analyze" /\ AnsweredProse(call))
    => Category(call.outcome) = "ParseFailure"

----------------------------------------------------------------------------
(* C4 *)

\* C4: analyze of a meeting text that is empty or only whitespace fails with
\* ValidationFailure, in both variants and whatever the credential is, and
\* makes no outbound request first.
C4_BlankTextFailsFast ==
    (call.op = "analyze" /\ IsBlank(call.meeting_text))
    => /\ Category(call.outcome) = "ValidationFailure"
       /\ call.requests = <<>>

\* a whitespace-only text was given to the cloud analyze_meeting while no
\* credential was set, and was refused for being empty
C4_Witness ==
    /\ call.variant = "cloud"
    /\ call.op = "analyze"
    /\ call.meeting_text = T_BLANK
    /\ environ = EmptyDict
    /\ Category(call.outcome) = "ValidationFailure"

----------------------------------------------------------------------------
(* C5 *)

\* C5: whatever the backend does, the caller of analyze receives either a
\* result holding all six required keys or an error; a result lacking a
\* required key is never returned, by /analyze or by analyze_meeting.
C5_CompleteOrError ==
    ReturnedResult(call) => SixKeys \subseteq DOMAIN call.outcome.body.v

----------------------------------------------------------------------------
(* C6 *)

\* C6: ask fails with ValidationFailure whenever the question or the meeting
\* text is empty or only whitespace, in chat_about_meeting and in /chat, and
\* makes no outbound request.
C6_BlankAskFailsFast ==
    (call.op = "ask" /\ (IsBlank(call.question) \/ IsBlank(call.meeting_text)))
    => /\ Category(call.outcome) = "ValidationFailure"
       /\ call.requests = <<>>

----------------------------------------------------------------------------
(* C7 *)

\* C7: every failure of a backend call made by analyze_meeting or
\* chat_about_meeting reaches the caller as one of the five categories of
\* the taxonomy, and an unreachable or timed-out backend as
\* ConnectionUnavailable.
C7_FailuresClassified ==
    (call.variant = "cloud" /\ call.requests # <<>> /\ call.reply.raised)
    => /\ Category(call.outcome) \in Taxonomy
       /\ call.reply.msg \in {ERR_CONNECTION, ERR_TIMEOUT}
            => Category(call.outcome) = "ConnectionUnavailable"

----------------------------------------------------------------------------
(* C8 *)

\* analyze: the text is not blank; ask: neither question nor text is blank
ValidInput(c) ==
    \/ c.op = "analyze" /\ ~IsBlank(c.meeting_text)
    \/ c.op = "ask" /\ ~IsBlank(c.question) /\ ~IsBlank(c.meeting_text)

KeyAbsent ==
    "GROQ_API_KEY" \notin DOMAIN environ \/ environ["GROQ_API_KEY"] = PyStr("")

\* a step that is an invocation of the cloud analyze_meeting or
\* chat_about_meeting; environ is the environment the invocation runs in
CloudInvocation == call' # call /\ call'.variant = "cloud"

\* C8, as claimed: importing model_logic raises nothing whatever the
\* environment; a cloud call with valid input made while the key is absent
\* fails with AuthenticationFailed and makes no request; a cloud call made
\* while the key is present sends, in every request it makes, the key the
\* environment holds at that call.
C8_CredentialReadPerCall ==
    /\ [](imported # "error")
    /\ [][(CloudInvocation /\ ValidInput(call'))
          => IF KeyAbsent
             THEN /\ Category(call'.outcome) = "AuthenticationFailed"
                  /\ call'.requests = <<>>
             ELSE \A i \in 1..Len(call'.requests) :
                    call'.requests[i].api_key = environ["GROQ_API_KEY"]]_vars

\* C8, amended: as claimed where the Groq SDK is importable, and the key
\* present then reaches the backend in exactly one request; where the SDK
\* is not importable every cloud call with valid input raises without
\* making a request.
C8_CredentialReadPerCallWithSdk ==
    /\ [](imported # "error")
    /\ [][(CloudInvocation /\ ValidInput(call'))
          => IF ~groq_installed
             THEN call'.requests = <<>> /\ call'.outcome.kind = "raise"
             ELSE IF KeyAbsent
             THEN /\ Category(call'.outcome) = "AuthenticationFailed"
                  /\ call'.requests = <<>>
             ELSE /\ Len(call'.requests) = 1
                  /\ call'.requests[1].api_key = environ["GROQ_API_KEY"]]_vars

\* model_logic was imported with no key set, and a cloud call with valid
\* input was then refused for the missing key
C8_Witness ==
    /\ imported = "ok"
    /\ groq_installed
    /\ environ = EmptyDict
    /\ call.variant = "cloud"
    /\ ValidInput(call)
    /\ Category(call.outcome) = "AuthenticationFailed"
    /\ call.requests = <<>>

----------------------------------------------------------------------------
(* C9 *)

\* C9, as claimed: an invocation makes at most one outbound request, and
\* exactly one when its input passes validation and (cloud) the credential
\* is present.
C9_ExactlyOneRequest ==
    /\ [](Len(call.requests) <= 1)
    /\ [][(/\ call' # call
           /\ ValidInput(call')
           /\ (call'.variant = "cloud" => ~KeyAbsent))
          => Len(call'.requests) = 1]_vars

\* C9, amended: at most one outbound request per invocation, and exactly
\* one when the input passes validation and (cloud) the credential is
\* present and the Groq SDK is importable.
C9_ExactlyOneRequestWithSdk ==
    /\ [](Len(call.requests) <= 1)
    /\ [][(/\ call' # call
           /\ ValidInput(call')
           /\ (call'.variant = "cloud" => (~KeyAbsent /\ groq_installed)))
          => Len(call'.requests) = 1]_vars

\* create() raised in a cloud analyze_meeting and was not called again
C9_Witness ==
    /\ call.variant = "cloud"
    /\ call.op = "analyze"
    /\ call.reply.raised
    /\ Len(call.requests) = 1
    /\ call.outcome.kind = "raise"

----------------------------------------------------------------------------
(* C10 *)

\* C10: the meeting_title of every returned analysis result is the title
\* the caller supplied, or the placeholder when it supplied none, also when
\* the model's JSON holds a meeting_title of its own.
C10_TitleIsCallers ==
    ReturnedResult(call)
    => /\ "meeting_title" \in DOMAIN call.outcome.body.v
       /\ call.outcome.body.v["meeting_title"] = CallerTitle(call)

\* the model's JSON carried a meeting_title and the caller supplied one
C10_Witness ==
    /\ ReturnedResult(call)
    /\ AnsweredObject(call)
    /\ "meeting_title" \in DOMAIN call.reply.content.doc.v
    /\ call.title_arg = PyStr("Q3 Sync")
    /\ call.variant = "cloud"


----------------------------------------------------------------------------
(* Transcription claims *)

\* a model that was loaded while its module was being imported
LoadedAtImport(m) == m # PyNone /\ m.at = "import"

\* C11: the cached Whisper model is created lazily: no step loads a model at
\* import time, model_logic loads it successfully at most once, and a cached
\* model, once set, is the same after every later step.
C11_LazyLoadedOnce ==
    [][/\ ~LoadedAtImport(_whisper_model')
       /\ ~LoadedAtImport(app_model')
       /\ whisper_loads' <= 1
       /\ (_whisper_model # PyNone => _whisper_model' = _whisper_model)
       /\ (app_model # PyNone => app_model' = app_model)]_vars

\* C11, model_logic alone: its cache is empty after the import, is filled by
\* the first get_whisper_model() whose load succeeds, and never changes after.
C11_ModelLogicLazyLoadedOnce ==
    [][/\ ~LoadedAtImport(_whisper_model')
       /\ whisper_loads' <= 1
       /\ (_whisper_model' # PyNone => whisper_loads' = 1)
       /\ (_whisper_model # PyNone => _whisper_model' = _whisper_model)]_vars

\* model_logic has loaded its model and a later call has reused it
C11_ModelLogicWitness ==
    /\ _whisper_model = WhisperModel("first use", 1)
    /\ transcription.variant = "cloud"
    /\ transcription.created = 2
    /\ ~transcription.raised

\* C14: after a transcribe call has finished, by returning the text or by
\* raising, the temporary audio file that call created does not exist; for
\* model_logic.transcribe_audio and for the /transcribe route alike.
C14_TempFileRemoved ==
    transcription.created # 0 => transcription.created \notin temp_files

\* C14, the try statement of transcribe_audio alone: once the upload has been
\* saved, the temporary file is gone whichever way the call ends.
C14_RemovedOnceSaved ==
    (/\ transcription.variant = "cloud"
     /\ transcription.created # 0
     /\ transcription.exc # "SaveError")
        => transcription.created \notin temp_files

----------------------------------------------------------------------------
(* Session claims *)

Displayed == session_state.analysis_result # PyNone

C13_TextIsOfDisplayedResult ==
    [][/\ (session_state'.analysis_result # PyNone
             => session_state'.meeting_text = analysed_text')
       /\ ((ui_event'.button = "analyze" /\ ~ui_event'.ok)
             => session_state' = session_state)
       /\ ((ui_event'.button = "send" /\ ui_event'.asked)
             => /\ session_state.analysis_result # PyNone
                /\ ui_event'.context = analysed_text)]_vars

\* an analysis of another text has failed while a result and its chat are
\* displayed
C13_Witness ==
    /\ Displayed
    /\ ui_event.button = "analyze"
    /\ ~ui_event.ok
    /\ ui_event.asked
    /\ ui_event.box # session_state.meeting_text
    /\ session_state.chat_history # <<>>

\* a question has been answered while the text area holds another text
C13_SendWitness ==
    /\ ui_event.button = "send"
    /\ ui_event.ok
    /\ ui_event.box = T_PADDED
    /\ ui_event.context = T_NOTES

====
